---- MODULE Spec2Model ----
(***************************************************************************)
(* AttendEase: nearest-descriptor matching and the attendance / meal       *)
(* ledgers over the JSON-file store.                                       *)
(*                                                                         *)
(* Numbers.  Descriptor components and thresholds are held in tenths       *)
(* (6 stands for 0.6).  A distance sqrt(s)/10 is held by its radicand s    *)
(* (a natural number), or as Infinity; comparisons between distances and   *)
(* thresholds are the exact comparisons of the real values.                *)
(*                                                                         *)
(* JavaScript values.  A slot that may hold undefined/null is <<>>         *)
(* (Undefined) or <<v>> (Arr(v) for an array v).  Objects are records; an  *)
(* absent key is a key outside the record's DOMAIN.  A numeric array whose *)
(* components after the leading ones are all 0 is held as                  *)
(* [length |-> n, lead |-> <<x, y>>]; At(d, i) is its i-th component.       *)
(* A timestamp "YYYY-MM-DDTHH:MM..." is held as [date |-> ..., time |-> ...]*)
(* and a time of day "HH:MM" as its minute of the day.                     *)
(***************************************************************************)
EXTENDS Integers, Sequences, FiniteSets, TLC

VARIABLES
    disk,      \* the database.json document on disk
    pc,        \* per request slot: "idle" or "write" (fs.writeFile pending)
    pend,      \* per request slot: the document handed to writeDatabase
    now,       \* the server clock (Date.now(), new Date())
    nreq,      \* number of requests received so far
    last,      \* the last completed request: what was asked, what was answered
    mIn,       \* inputs of the matcher / comparator under test
    mOut,      \* their results
    attendancePage,  \* js/attendance.js: the page's globals, timers and callbacks
    mealPage         \* the meal page: processMealDistribution runs and their traffic

vars == <<disk, pc, pend, now, nreq, last, mIn, mOut, attendancePage, mealPage>>

(***************************************************************************)
(* Bounds of the model and constants of the program                        *)
(***************************************************************************)
MaxList == 2             \* candidate lists handed to the matcher
MaxRequests == 2         \* requests received in one run
MaxStarts == 2           \* calls of startScanner on the attendance page

DescriptorLength == 128
DefaultThreshold == 6
InitialThreshold == 5

Undefined == <<>>
Arr(v) == <<v>>
Null == <<>>
Some(v) == <<v>>

EmptyObject == <<>>

Has(obj, key) == key \in DOMAIN obj
With(obj, key, v) == (key :> v) @@ obj

Desc(x, y) == [length |-> DescriptorLength, lead |-> <<x, y>>]
DA == Desc(0, 0)
DB == Desc(3, 4)
DC == Desc(4, 3)
DShort == [length |-> 2, lead |-> <<0, 0>>]
DFar == Desc(6, 9)
DLong == [length |-> DescriptorLength, lead |-> <<0, 0, 2>>]

\* ["0", 0, ..., 0]: an array of 128 elements whose first is the string "0";
\* the subtraction desc1[i] - desc2[i] converts it to the number 0
DText == [length |-> DescriptorLength, lead |-> <<0, 0>>, text |-> {1}]

\* a value that is not an array (an object)
NotAnArray == [object |-> TRUE]

\* Array.isArray(v)
IsArray(v) == Has(v, "lead")

At(d, i) == IF i <= Len(d.lead) THEN d.lead[i] ELSE 0

(***************************************************************************)
(* Distances                                                               *)
(***************************************************************************)
Infinity == [inf |-> TRUE, sq |-> 0]
Sqrt(s) == [inf |-> FALSE, sq |-> s]

\* a comparison that lets a distance equal to the threshold through
LessThanThreshold_Inclusive(dist, threshold) ==
    ~dist.inf /\ threshold > 0 /\ dist.sq <= threshold * threshold

\* dist < threshold, threshold a number in tenths
LessThanThreshold(dist, threshold) ==
    ~dist.inf /\ threshold > 0 /\ dist.sq < threshold * threshold

\* d1 < d2 on distances
LessDist(d1, d2) == ~d1.inf /\ (d2.inf \/ d1.sq < d2.sq)

LeqDist(d1, d2) == ~LessDist(d2, d1)

ISqrt(n) == CHOOSE r \in 0..n : r * r <= n /\ n < (r + 1) * (r + 1)

\* the integer nearest to sqrt(n): sqrt(n) is an integer or irrational
RoundSqrt(n) == LET r == ISqrt(n) IN IF n > r * r + r THEN r + 1 ELSE r

\* Math.round((1 - dist) * 100) for dist = sqrt(s) / 10
RoundConfidence(dist) == 100 - RoundSqrt(100 * dist.sq)

\* a loop that stops at the last component of desc1 that is not 0
RECURSIVE SumSq_StopsEarly(_, _, _)
SumSq_StopsEarly(desc1, desc2, i) ==
    IF i > desc1.length \/ i > Len(desc1.lead) THEN 0
    ELSE (At(desc1, i) - At(desc2, i)) * (At(desc1, i) - At(desc2, i))
         + SumSq_StopsEarly(desc1, desc2, i + 1)

\* sum over i < desc1.length of diff * diff; the components after the leading
\* ones are 0 in both arrays and add nothing
RECURSIVE SumSq(_, _, _)
SumSq(desc1, desc2, i) ==
    IF i > desc1.length \/ (i > Len(desc1.lead) /\ i > Len(desc2.lead)) THEN 0
    ELSE (At(desc1, i) - At(desc2, i)) * (At(desc1, i) - At(desc2, i))
         + SumSq(desc1, desc2, i + 1)

\* routes/attendance: euclideanDistance(desc1, desc2)
euclideanDistance(desc1, desc2) ==
    IF desc1 = Undefined \/ desc2 = Undefined THEN Infinity
    ELSE IF desc1[1].length # desc2[1].length THEN Infinity
    ELSE Sqrt(SumSq(desc1[1], desc2[1], 1))

(***************************************************************************)
(* routes/attendance: findBestMatch                                        *)
(***************************************************************************)
NoMatch == [bestMatch |-> Null, matchedStudent |-> Null]

\* a matcher that takes the inactive students along
Eligible_InactiveToo(student) ==
    /\ student.status \in {"active", "inactive"}
    /\ Has(student, "faceData")
    /\ Has(student.faceData, "descriptors")

\* a matcher that forgets the status test
Eligible_IgnoresStatus(student) ==
    /\ Has(student, "faceData")
    /\ Has(student.faceData, "descriptors")

Eligible(student) ==
    /\ student.status = "active"
    /\ Has(student, "faceData")
    /\ Has(student.faceData, "descriptors")

\* a matcher that lets a later descriptor at an equal distance replace the best
Consider_LaterTieWins(inputDescriptor, student, descriptor, threshold, acc) ==
    LET dist == euclideanDistance(inputDescriptor, descriptor)
    IN  IF /\ LessThanThreshold(dist, threshold)
           /\ (acc.bestMatch = Null \/ LeqDist(dist, acc.bestMatch[1].distance))
        THEN [bestMatch |-> Some([distance |-> dist,
                                  confidence |-> RoundConfidence(dist)]),
              matchedStudent |-> Some(student)]
        ELSE acc

\* the body of the inner loop: one descriptor of one student
Consider(inputDescriptor, student, descriptor, threshold, acc) ==
    LET dist == euclideanDistance(inputDescriptor, descriptor)
    IN  IF /\ LessThanThreshold(dist, threshold)
           /\ (acc.bestMatch = Null \/ LessDist(dist, acc.bestMatch[1].distance))
        THEN [bestMatch |-> Some([distance |-> dist,
                                  confidence |-> RoundConfidence(dist)]),
              matchedStudent |-> Some(student)]
        ELSE acc

RECURSIVE ScanDescriptors(_, _, _, _, _)
ScanDescriptors(inputDescriptor, student, i, threshold, acc) ==
    IF i > Len(student.faceData.descriptors) THEN acc
    ELSE ScanDescriptors(inputDescriptor, student, i + 1, threshold,
             Consider(inputDescriptor, student, student.faceData.descriptors[i],
                      threshold, acc))

RECURSIVE ScanStudents(_, _, _, _, _)
ScanStudents(inputDescriptor, students, k, threshold, acc) ==
    IF k > Len(students) THEN acc
    ELSE ScanStudents(inputDescriptor, students, k + 1, threshold,
             IF Eligible(students[k])
             THEN ScanDescriptors(inputDescriptor, students[k], 1, threshold, acc)
             ELSE acc)

findBestMatch(inputDescriptor, students, threshold) ==
    ScanStudents(inputDescriptor, students, 1, threshold, NoMatch)

\* db.settings?.recognitionThreshold || 0.6
ThresholdOf(settings) ==
    IF Has(settings, "recognitionThreshold") /\ settings.recognitionThreshold # 0
    THEN settings.recognitionThreshold
    ELSE DefaultThreshold

(***************************************************************************)
(* backend/utils/faceRecognition.js: FaceRecognitionUtils                  *)
(***************************************************************************)
Threw == [threw |-> TRUE]
Returned(v) == [threw |-> FALSE, value |-> v]

Utils_euclideanDistance(desc1, desc2) ==
    IF desc1 = Undefined \/ desc2 = Undefined THEN Threw
    ELSE IF desc1[1].length # desc2[1].length THEN Threw
    ELSE Returned(Sqrt(SumSq(desc1[1], desc2[1], 1)))

\* Math.round(Math.max(0, (1 - distance) * 100))
ClampedConfidence(dist) ==
    IF RoundConfidence(dist) < 0 THEN 0 ELSE RoundConfidence(dist)

compareFaces(descriptor1, descriptor2, recognitionThreshold) ==
    IF descriptor1 = Undefined \/ descriptor2 = Undefined THEN Threw
    ELSE IF descriptor1[1].length # DescriptorLength
            \/ descriptor2[1].length # DescriptorLength THEN Threw
    ELSE LET d == Utils_euclideanDistance(descriptor1, descriptor2)
         IN  IF d.threw THEN Threw
             ELSE Returned([distance |-> d.value,
                            confidence |-> ClampedConfidence(d.value),
                            isMatch |-> LessThanThreshold(d.value, recognitionThreshold)])

\* threshold || this.recognitionThreshold
UseThreshold(threshold, recognitionThreshold) ==
    IF threshold = Null \/ threshold = Some(0) THEN recognitionThreshold
    ELSE threshold[1]

RECURSIVE Utils_Scan(_, _, _, _, _, _)
Utils_Scan(targetDescriptor, storedDescriptors, index, useThreshold, recognitionThreshold, acc) ==
    IF acc.threw \/ index > Len(storedDescriptors) THEN acc
    ELSE LET comparison == compareFaces(targetDescriptor, storedDescriptors[index],
                                        recognitionThreshold)
         IN  IF comparison.threw THEN Threw
             ELSE Utils_Scan(targetDescriptor, storedDescriptors, index + 1,
                     useThreshold, recognitionThreshold,
                     IF /\ LessDist(comparison.value.distance, acc.value.minDistance)
                        /\ LessThanThreshold(comparison.value.distance, useThreshold)
                     THEN Returned([minDistance |-> comparison.value.distance,
                                    bestMatch |-> Some(comparison.value),
                                    bestIndex |-> index - 1])
                     ELSE acc)

Utils_findBestMatch(targetDescriptor, storedDescriptors, threshold, recognitionThreshold) ==
    LET useThreshold == UseThreshold(threshold, recognitionThreshold)
        r == Utils_Scan(targetDescriptor, storedDescriptors, 1, useThreshold,
                        recognitionThreshold,
                        Returned([minDistance |-> Infinity, bestMatch |-> Null,
                                  bestIndex |-> 0 - 1]))
    IN  IF r.threw THEN Threw
        ELSE Returned([found |-> r.value.bestMatch # Null,
                       match |-> r.value.bestMatch,
                       index |-> r.value.bestIndex,
                       totalCompared |-> Len(storedDescriptors),
                       threshold |-> useThreshold])

(***************************************************************************)
(* The store: database.json                                                *)
(***************************************************************************)
Procs == {1, 2}

\* server.js initializeDatabase: the document written when no file exists
initialData ==
    [students |-> <<>>, attendance |-> <<>>, meals |-> <<>>,
     settings |-> [recognitionThreshold |-> InitialThreshold],
     statistics |-> [totalRegistrations |-> 0, totalAttendanceMarked |-> 0,
                     totalMealsServed |-> 0]]

Student(id, status, descriptors) ==
    [studentId |-> id, status |-> status, faceData |-> [descriptors |-> descriptors]]

Idle == [p \in Procs |-> "idle"]
NoPending == [op |-> "none"]
NoRequest == [seq |-> 0, op |-> "none"]

\* the attendance page once DOMContentLoaded has run, models loaded or not;
\* started, submitted, stopped, armedAfterStop and invokedAfterStop record
\* what has happened and are read by no handler
AttendancePageLoaded(isModelLoaded) ==
    [isModelLoaded |-> isModelLoaded, isScanning |-> FALSE, recognitionTimeout |-> "null",
     starting |-> 0, srcObject |-> FALSE, listeners |-> 0, metadata |-> FALSE,
     frames |-> 0, detecting |-> 0, fetching |-> 0, stopTimers |-> 0,
     started |-> 0, submitted |-> 0, stopped |-> FALSE,
     armedAfterStop |-> FALSE, invokedAfterStop |-> FALSE]

\* the meal page with no processMealDistribution started
MealPageLoaded == [runs |-> <<>>]

PagesAtRest ==
    /\ attendancePage = AttendancePageLoaded(FALSE)
    /\ mealPage = MealPageLoaded

StoreAtRest ==
    /\ disk = initialData
    /\ pc = Idle
    /\ pend = [p \in Procs |-> NoPending]
    /\ now = 0
    /\ nreq = 0
    /\ last = NoRequest

(***************************************************************************)
(* Requests and their inputs                                               *)
(***************************************************************************)
Timestamps ==
    { [date |-> "2025-01-01", time |-> "08:00"],
      [date |-> "2025-01-01", time |-> "12:30"],
      [date |-> "2025-01-02", time |-> "08:00"] }

\* timestamp.slice(0, 10)
Slice10(timestamp) == timestamp.date

\* timestamp.split('T')[0]
SplitT(timestamp) == timestamp.date

AttendanceProbes == {DA, DB}

SessionInputs ==
    { [session |-> Undefined, sessionType |-> Undefined],
      [session |-> Some("Morning Session"), sessionType |-> Some("morning")],
      [session |-> Some("morning session"), sessionType |-> Undefined] }

MealStudentIds == {"S001", "S002", "S404"}

RegisterStudentIds == {"S003", "s003", " S003"}
RegisterDescriptors == {<<Arr(DC)>>, <<Arr(DShort)>>, <<>>}

\* String.prototype.trim and toLowerCase on the identifiers above
Trim(str) == IF str = " S003" THEN "S003" ELSE str

ToLowerCase(str) ==
    CASE str = "S001" -> "s001"
      [] str = "S002" -> "s002"
      [] str = "S003" -> "s003"
      [] str = " S003" -> " s003"
      [] str = "S404" -> "s404"
      [] OTHER -> str

\* /^[A-Za-z0-9]{3,10}$/.test(str)
IsAlnum3to10(str) == str \in {"S001", "S002", "S003", "s001", "s003", "S404"}

\* a store left by earlier runs: one active and one inactive student, the
\* inactive one with a meal on record
ExistingStore ==
    [students |-> << Student("S001", "active", <<Arr(DA)>>),
                     Student("S002", "inactive", <<Arr(DB)>>) >>,
     attendance |-> <<>>,
     meals |-> << [id |-> 0, studentId |-> "S002", date |-> "2025-01-01",
                   timestamp |-> [date |-> "2025-01-01", time |-> "12:30"],
                   status |-> "served"] >>,
     settings |-> [recognitionThreshold |-> InitialThreshold],
     statistics |-> [totalRegistrations |-> 2, totalAttendanceMarked |-> 0,
                     totalMealsServed |-> 1]]

(***************************************************************************)
(* readDatabase / writeDatabase (three copies: server, attendance route,   *)
(* register route).  ok is whether fs.readFile / fs.writeFile succeeded.   *)
(***************************************************************************)
readDatabase_server(d, ok) ==
    IF ok THEN d
    ELSE [students |-> <<>>, attendance |-> <<>>, meals |-> <<>>,
          settings |-> [recognitionThreshold |-> InitialThreshold],
          statistics |-> [totalRegistrations |-> 0, totalAttendanceMarked |-> 0,
                          totalMealsServed |-> 0]]

readDatabase_attendance(d, ok) ==
    IF ok THEN d
    ELSE [students |-> <<>>, attendance |-> <<>>, settings |-> EmptyObject,
          statistics |-> EmptyObject]

readDatabase_register(d, ok) ==
    IF ok THEN d
    ELSE [students |-> <<>>, attendance |-> <<>>,
          settings |-> [recognitionThreshold |-> InitialThreshold],
          statistics |-> EmptyObject]

\* a write that adds the newest attendance record to what is on file
writeDatabase_AppendsToFile(d, data, ok) ==
    IF ok
    THEN [data EXCEPT !.attendance =
             d.attendance \o (IF Len(data.attendance) > 0
                              THEN <<data.attendance[Len(data.attendance)]>> ELSE <<>>)]
    ELSE d

\* a failed write that has already put the new statistics on file
writeDatabase_PartialOnFailure(d, data, ok) ==
    IF ok THEN data ELSE [d EXCEPT !.statistics = data.statistics]

\* fs.writeFile replaces the file, or fails and leaves it
writeDatabase(d, data, ok) == IF ok THEN data ELSE d

\* (obj.key || 0)
OrZero(obj, key) == IF Has(obj, key) THEN obj[key] ELSE 0

(***************************************************************************)
(* routes/attendance: getCurrentTimeSlot                                   *)
(***************************************************************************)
\* a time of day as the string "HH:MM": its four digits
Hhmm(minutes) ==
    << (minutes \div 60) \div 10, (minutes \div 60) % 10,
       (minutes % 60) \div 10, (minutes % 60) % 10 >>

\* a comparison that leaves the equal strings out
StrLeq_Strict(a, b) ==
    \E i \in 1..Len(a) : a[i] < b[i] /\ \A j \in 1..(i - 1) : a[j] = b[j]

\* a <= b on strings of one length: the comparison of JavaScript strings,
\* character by character
StrLeq(a, b) ==
    \/ a = b
    \/ \E i \in 1..Len(a) : a[i] < b[i] /\ \A j \in 1..(i - 1) : a[j] = b[j]

\* new Date().toTimeString().slice(0, 5): the clock starts at 11:59 and a
\* tick is a minute
TimeOfDay(clock) == Hhmm((11 * 60 + 59 + clock) % (24 * 60))

slots ==
    << [key |-> "morning", start |-> <<0, 8, 0, 0>>, end |-> <<1, 2, 0, 0>>,
        name |-> "Morning Session"],
       [key |-> "meal", start |-> <<1, 2, 0, 0>>, end |-> <<1, 3, 0, 0>>,
        name |-> "Mid-Day Meal"],
       [key |-> "afternoon", start |-> <<1, 3, 0, 0>>, end |-> <<1, 7, 0, 0>>,
        name |-> "Afternoon Session"] >>

\* a resolver that keeps looking and returns the last slot containing the time
RECURSIVE FirstSlot_LastWins(_, _)
FirstSlot_LastWins(time, k) ==
    IF k > Len(slots) THEN [type |-> "none", name |-> "No Active Session", active |-> FALSE]
    ELSE LET later == FirstSlot_LastWins(time, k + 1)
         IN  IF later.active THEN later
             ELSE IF StrLeq(slots[k].start, time) /\ StrLeq(time, slots[k].end)
             THEN [type |-> slots[k].key, name |-> slots[k].name, active |-> TRUE]
             ELSE later

RECURSIVE FirstSlot(_, _)
FirstSlot(time, k) ==
    IF k > Len(slots) THEN [type |-> "none", name |-> "No Active Session", active |-> FALSE]
    ELSE IF StrLeq(slots[k].start, time) /\ StrLeq(time, slots[k].end)
         THEN [type |-> slots[k].key, name |-> slots[k].name, active |-> TRUE]
         ELSE FirstSlot(time, k + 1)

getCurrentTimeSlot(clock) == FirstSlot(TimeOfDay(clock), 1)

(***************************************************************************)
(* js/attendance.js (the attendance page): timeSlots, getCurrentSession    *)
(***************************************************************************)
timeSlots ==
    << [key |-> "morning", start |-> <<0, 8, 0, 0>>, end |-> <<1, 2, 0, 0>>,
        name |-> "Morning Session"],
       [key |-> "afternoon", start |-> <<1, 3, 0, 0>>, end |-> <<1, 7, 0, 0>>,
        name |-> "Afternoon Session"],
       [key |-> "meal", start |-> <<1, 2, 0, 0>>, end |-> <<1, 3, 0, 0>>,
        name |-> "Mid-Day Meal"] >>

RECURSIVE FirstTimeSlot(_, _)
FirstTimeSlot(currentTime, k) ==
    IF k > Len(timeSlots)
    THEN [type |-> "morning", name |-> "Morning Session", active |-> FALSE]
    ELSE IF StrLeq(timeSlots[k].start, currentTime) /\ StrLeq(currentTime, timeSlots[k].end)
         THEN [type |-> timeSlots[k].key, name |-> timeSlots[k].name, active |-> TRUE]
         ELSE FirstTimeSlot(currentTime, k + 1)

getCurrentSession(clock) == FirstTimeSlot(TimeOfDay(clock), 1)

(***************************************************************************)
(* routes/attendance: router.post('/mark')                                 *)
(***************************************************************************)
\* Array.prototype.find: the first element satisfying Test, or Null
RECURSIVE FindFrom(_, _, _)
FindFrom(seq, Test(_), k) ==
    IF k > Len(seq) THEN Null
    ELSE IF Test(seq[k]) THEN Some(seq[k])
    ELSE FindFrom(seq, Test, k + 1)

\* an existence check that compares the whole timestamp instead of the date
FindAttendance_ComparesTimestamp(attendance, studentId, timestamp, sessionName) ==
    LET Same(a) == /\ a.studentId = studentId
                   /\ a.timestamp = timestamp
                   /\ a.session = sessionName
    IN  FindFrom(attendance, Same, 1)

\* db.attendance.find(a => a.studentId === ... && a.date === ... && a.session === ...)
FindAttendance(attendance, studentId, timestamp, sessionName) ==
    LET Same(a) == /\ a.studentId = studentId
                   /\ a.date = Slice10(timestamp)
                   /\ a.session = sessionName
    IN  FindFrom(attendance, Same, 1)

\* db.attendance.push(record); db.statistics.totalAttendance = (... || 0) + 1
\* a handler that appends the record and leaves the counter alone
AppendAttendance_NoCount(db, record) ==
    [db EXCEPT !.attendance = Append(@, record)]

AppendAttendance(db, record) ==
    [db EXCEPT !.attendance = Append(@, record),
               !.statistics = With(@, "totalAttendance", OrZero(@, "totalAttendance") + 1)]

\* the handler from the read of the store to the decision; clock is the
\* server time when it runs
AttendanceDecision(db, req, clock) ==
    LET threshold == ThresholdOf(db.settings)
        m == findBestMatch(Arr(req.faceDescriptor), db.students, threshold)
    IN  IF m.matchedStudent = Null
        THEN [kind |-> "nomatch",
              resp |-> [status |-> 200, success |-> FALSE, recognized |-> FALSE,
                        confidence |-> 0]]
        ELSE
        LET matchedStudent == m.matchedStudent[1]
            slot == getCurrentTimeSlot(clock)
            sessionName == IF req.session # Undefined THEN req.session[1] ELSE slot.name
            existing == FindAttendance(db.attendance, matchedStudent.studentId,
                                       req.timestamp, sessionName)
            record == [id |-> clock,
                       studentId |-> matchedStudent.studentId,
                       timestamp |-> req.timestamp,
                       date |-> Slice10(req.timestamp),
                       session |-> sessionName,
                       sessionType |-> IF req.sessionType # Undefined
                                       THEN req.sessionType[1] ELSE slot.type,
                       status |-> "present",
                       confidence |-> m.bestMatch[1].confidence]
        IN  IF existing # Null
            THEN [kind |-> "existing",
                  resp |-> [status |-> 200, success |-> TRUE, recognized |-> TRUE,
                            alreadyMarked |-> TRUE,
                            studentId |-> matchedStudent.studentId,
                            session |-> sessionName,
                            timestamp |-> existing[1].timestamp]]
            ELSE [kind |-> "create",
                  doc |-> AppendAttendance(db, record),
                  resp |-> [status |-> 200, success |-> TRUE, recognized |-> TRUE,
                            alreadyMarked |-> FALSE,
                            studentId |-> record.studentId,
                            session |-> record.session,
                            timestamp |-> record.timestamp,
                            confidence |-> record.confidence]]

(***************************************************************************)
(* server.js: app.post('/api/meal/mark')                                   *)
(***************************************************************************)
FindActiveStudent(students, studentId) ==
    LET Test(st) == st.studentId = studentId /\ st.status = "active"
    IN  FindFrom(students, Test, 1)

\* a lookup that compares the wrong field of the record with the date
FindMeal_WrongField(meals, studentId, mealDate) ==
    LET Test(meal) == meal.studentId = studentId /\ meal.status = mealDate
    IN  FindFrom(meals, Test, 1)

\* db.meals.find(meal => meal.studentId === studentId && meal.date === mealDate)
FindMeal(meals, studentId, mealDate) ==
    LET Test(meal) == meal.studentId = studentId /\ meal.date = mealDate
    IN  FindFrom(meals, Test, 1)

\* db.meals.push(mealRecord); totalMealsServed defaults to 0 and is incremented
AppendMeal(db, mealRecord) ==
    [db EXCEPT !.meals = Append(@, mealRecord),
               !.statistics = With(@, "totalMealsServed",
                                   OrZero(@, "totalMealsServed") + 1)]

MealNotFound == [status |-> 404, success |-> FALSE, message |-> "Student not found or inactive"]
MealServerError == [status |-> 500, success |-> FALSE, message |-> "Server error while marking meal"]
MealSaveFailed == [status |-> 500, success |-> FALSE, message |-> "Failed to save meal record"]

MealAlreadyMarked(existingMeal) ==
    [status |-> 200, success |-> TRUE, alreadyMarked |-> TRUE, mealRecord |-> existingMeal]

\* a handler that looks for the day's record before it looks at the student
MealDecision_DuplicateFirst(db, req, clock) ==
    LET existingMeal == IF Has(db, "meals")
                        THEN FindMeal(db.meals, req.studentId, SplitT(req.timestamp))
                        ELSE Null
    IN  IF existingMeal # Null
        THEN [kind |-> "existing", resp |-> MealAlreadyMarked(existingMeal[1])]
        ELSE [kind |-> "reject", resp |-> MealNotFound]

MealDecision(db, req, clock) ==
    LET mealDate == SplitT(req.timestamp)
        student == FindActiveStudent(db.students, req.studentId)
    IN  IF student = Null THEN [kind |-> "reject", resp |-> MealNotFound]
        ELSE IF ~Has(db, "meals") THEN [kind |-> "throw", resp |-> MealServerError]
        ELSE
        LET existingMeal == FindMeal(db.meals, req.studentId, mealDate)
            mealRecord == [id |-> clock, studentId |-> req.studentId, date |-> mealDate,
                           timestamp |-> req.timestamp, status |-> "served"]
        IN  IF existingMeal # Null
            THEN [kind |-> "existing", resp |-> MealAlreadyMarked(existingMeal[1])]
            ELSE [kind |-> "create",
                  doc |-> AppendMeal(db, mealRecord),
                  resp |-> [status |-> 200, success |-> TRUE, alreadyMarked |-> FALSE,
                            mealRecord |-> mealRecord]]

(***************************************************************************)
(* server.js: app.get('/api/meal/stats')                                   *)
(***************************************************************************)
\* new Date().toISOString().split('T')[0]: the clock starts at 11:59 of
\* 2025-01-01
Today(clock) == IF 11 * 60 + 59 + clock < 24 * 60 THEN "2025-01-01" ELSE "2025-01-02"

\* a rate that is cut off, not rounded
RoundRatio_Floors(n, d) == (100 * n) \div d

\* Math.round((n / d) * 100), n >= 0 and d > 0: halves go up
RoundRatio(n, d) == (200 * n + d) \div (2 * d)

StatsServerError ==
    [status |-> 500, success |-> FALSE,
     message |-> "Server error while fetching meal statistics"]

\* the handler: query.date is the optional date of the query string
mealStats(d, query, clock, ok) ==
    LET targetDate == IF query.date # Undefined THEN query.date[1] ELSE Today(clock)
        db == readDatabase_server(d, ok)
    IN  IF ~Has(db, "meals") THEN StatsServerError
        ELSE
        LET totalStudents ==
                Cardinality({k \in 1..Len(db.students) : db.students[k].status = "active"})
            mealsServedToday ==
                Cardinality({i \in 1..Len(db.meals) : db.meals[i].date = targetDate})
            mealRate == IF totalStudents > 0
                        THEN RoundRatio(mealsServedToday, totalStudents) ELSE 0
        IN  [status |-> 200, success |-> TRUE, date |-> targetDate,
             totalStudents |-> totalStudents,
             mealsServedToday |-> mealsServedToday,
             mealsRemaining |-> IF totalStudents - mealsServedToday > 0
                                THEN totalStudents - mealsServedToday ELSE 0,
             mealRate |-> mealRate,
             totalMealsServedAllTime |-> OrZero(db.statistics, "totalMealsServed")]

(***************************************************************************)
(* routes/register: validateStudentData, router.post('/')                  *)
(***************************************************************************)
\* a validation that asks for a non-empty list and not for 128 components
validateStudentData_AnyLength(data) ==
    (IF ~IsAlnum3to10(Trim(data.studentId)) THEN {"Student ID must be 3-10 alphanumeric."}
     ELSE {})
    \cup
    (IF ~Has(data, "faceData") \/ Len(data.faceData.descriptors) = 0
     THEN {"Face descriptors are required."} ELSE {})

\* name, class and parentName of the drawn requests are valid
validateStudentData(data) ==
    (IF ~IsAlnum3to10(Trim(data.studentId)) THEN {"Student ID must be 3-10 alphanumeric."}
     ELSE {})
    \cup
    (IF ~Has(data, "faceData") \/ Len(data.faceData.descriptors) = 0
     THEN {"Face descriptors are required."} ELSE {})
    \cup
    (IF Has(data, "faceData")
        /\ \E i \in 1..Len(data.faceData.descriptors) :
              \/ data.faceData.descriptors[i] = Undefined
              \/ data.faceData.descriptors[i][1].length # DescriptorLength
     THEN {"Descriptor must be an array of 128 numbers."} ELSE {})

IsDuplicate(students, studentId) ==
    \E i \in 1..Len(students) :
        /\ ToLowerCase(students[i].studentId) = ToLowerCase(studentId)
        /\ students[i].status = "active"

AppendStudent(db, newStudent) ==
    [db EXCEPT !.students = Append(@, newStudent),
               !.statistics = With(@, "totalRegistrations",
                                   OrZero(@, "totalRegistrations") + 1)]

RegisterDecision(db, data) ==
    IF IsDuplicate(db.students, data.studentId)
    THEN [kind |-> "reject",
          resp |-> [status |-> 409, success |-> FALSE, message |-> "Student ID already exists."]]
    ELSE LET newStudent == Student(Trim(data.studentId), "active", data.faceData.descriptors)
         IN  [kind |-> "create",
              doc |-> AppendStudent(db, newStudent),
              resp |-> [status |-> 201, success |-> TRUE,
                        studentId |-> newStudent.studentId]]

RegisterSaveFailed ==
    [status |-> 500, success |-> FALSE, message |-> "Failed to save student registration."]

(***************************************************************************)
(* The request handlers as steps.  A handler runs from the arrival of the  *)
(* request through the read of the file to its decision in one step        *)
(* (..._Read); when it decided to write, fs.writeFile takes effect in a    *)
(* later step (..._Write), after which the response is sent.  With solo a  *)
(* request is taken only when no other request is in flight.  The clock    *)
(* advances by at most a minute between two requests, and is seen to do so *)
(* by the attendance handler, the one whose decision reads it.             *)
(***************************************************************************)
Begin(p, solo) ==
    /\ pc[p] = "idle"
    /\ nreq < MaxRequests
    /\ solo => pc = Idle

\* what the store held when a request read it: the size of the attendance
\* collection, the meals and the counters
Sizes(d) ==
    [attendance |-> Len(d.attendance),
     totalAttendance |-> OrZero(d.statistics, "totalAttendance"),
     meals |-> IF Has(d, "meals") THEN d.meals ELSE <<>>,
     totalMealsServed |-> OrZero(d.statistics, "totalMealsServed")]

\* the record of a completed request; replaced is the attendance collection
\* that was on file when the request's write reached it
Completed(n, op, req, resp, read, write, before, replaced) ==
    [seq |-> n, op |-> op, req |-> req, resp |-> resp, read |-> read, write |-> write,
     before |-> before, replaced |-> replaced]

ReadResult(ok) == IF ok THEN "ok" ELSE "failed"

Park(p, op, req, db, decision, ok) ==
    /\ pc' = [pc EXCEPT ![p] = "write"]
    /\ pend' = [pend EXCEPT ![p] = [op |-> op, seq |-> nreq + 1, req |-> req, base |-> db,
                                    doc |-> decision.doc, resp |-> decision.resp,
                                    read |-> ReadResult(ok), before |-> Sizes(disk)]]
    /\ last' = last

Reply(p, op, req, resp, read) ==
    /\ pc' = pc
    /\ pend' = pend
    /\ last' = Completed(nreq + 1, op, req, resp, read, "none", Sizes(disk), disk.attendance)

Unpark(p, resp, ok) ==
    /\ pc' = [pc EXCEPT ![p] = "idle"]
    /\ pend' = [pend EXCEPT ![p] = NoPending]
    /\ last' = Completed(pend[p].seq, pend[p].op, pend[p].req, resp, pend[p].read,
                         IF ok THEN "ok" ELSE "failed", pend[p].before, disk.attendance)

MarkMissing ==
    [status |-> 400, success |-> FALSE, message |-> "Face descriptor and timestamp required"]
MarkInvalid ==
    [status |-> 400, success |-> FALSE, message |-> "Invalid face descriptor"]

\* the two checks made on the body before the store is read
ValidateMark(req) ==
    IF req.faceDescriptor = Undefined \/ req.timestamp = Undefined THEN Some(MarkMissing)
    ELSE IF ~IsArray(req.faceDescriptor) \/ req.faceDescriptor.length # DescriptorLength
    THEN Some(MarkInvalid)
    ELSE Null

\* the handler on bodies drawn from the given descriptors and timestamps
MarkAttendance_Request(p, solo, faceDescriptors, timestamps) ==
    /\ Begin(p, solo)
    /\ \E faceDescriptor \in faceDescriptors, timestamp \in timestamps,
          s \in SessionInputs, ok \in BOOLEAN, clock \in {now, now + 1} :
          LET req == [faceDescriptor |-> faceDescriptor, timestamp |-> timestamp,
                      session |-> s.session, sessionType |-> s.sessionType]
              rejection == ValidateMark(req)
              db == readDatabase_attendance(disk, ok)
              decision == AttendanceDecision(db, req, clock)
          IN  /\ now' = clock
              /\ nreq' = nreq + 1
              /\ IF rejection # Null
                 THEN Reply(p, "attendance", req, rejection[1], "none")
                 ELSE IF decision.kind = "create"
                 THEN Park(p, "attendance", req, db, decision, ok)
                 ELSE Reply(p, "attendance", req, decision.resp, ReadResult(ok))
    /\ UNCHANGED <<attendancePage, mealPage, disk, mIn, mOut>>

\* well-formed bodies only
MarkAttendance_Read(p, solo) ==
    MarkAttendance_Request(p, solo, AttendanceProbes, Timestamps)

\* await writeDatabase(db): the result is not looked at
MarkAttendance_Write(p) ==
    /\ pc[p] = "write"
    /\ pend[p].op = "attendance"
    /\ \E ok \in BOOLEAN :
          /\ disk' = writeDatabase(disk, pend[p].doc, ok)
          /\ Unpark(p, pend[p].resp, ok)
    /\ UNCHANGED <<attendancePage, mealPage, now, nreq, mIn, mOut>>

MarkMeal_Read(p, solo) ==
    /\ Begin(p, solo)
    /\ \E studentId \in MealStudentIds, timestamp \in Timestamps, ok \in BOOLEAN :
          LET req == [studentId |-> studentId, timestamp |-> timestamp]
              db == readDatabase_server(disk, ok)
              decision == MealDecision(db, req, now)
          IN  /\ nreq' = nreq + 1
              /\ IF decision.kind = "create"
                 THEN Park(p, "meal", req, db, decision, ok)
                 ELSE Reply(p, "meal", req, decision.resp, ReadResult(ok))
    /\ UNCHANGED <<attendancePage, mealPage, disk, now, mIn, mOut>>

\* const saved = await writeDatabase(db); if (!saved) return res.status(500)...
MarkMeal_Write(p) ==
    /\ pc[p] = "write"
    /\ pend[p].op = "meal"
    /\ \E ok \in BOOLEAN :
          /\ disk' = writeDatabase(disk, pend[p].doc, ok)
          /\ Unpark(p, IF ok THEN pend[p].resp ELSE MealSaveFailed, ok)
    /\ UNCHANGED <<attendancePage, mealPage, now, nreq, mIn, mOut>>

Register_Request(p, solo, studentIds, descriptorLists) ==
    /\ Begin(p, solo)
    /\ \E studentId \in studentIds, descriptors \in descriptorLists,
          ok \in BOOLEAN :
          LET data == [studentId |-> studentId, faceData |-> [descriptors |-> descriptors]]
              validationErrors == validateStudentData(data)
              db == readDatabase_register(disk, ok)
              decision == RegisterDecision(db, data)
          IN  /\ nreq' = nreq + 1
              /\ IF validationErrors # {}
                 THEN Reply(p, "register", data,
                            [status |-> 400, success |-> FALSE,
                             message |-> "Validation failed"], "none")
                 ELSE IF decision.kind = "create"
                 THEN Park(p, "register", data, db, decision, ok)
                 ELSE Reply(p, "register", data, decision.resp, ReadResult(ok))
    /\ UNCHANGED <<attendancePage, mealPage, disk, now, mIn, mOut>>

Register_Read(p, solo) ==
    Register_Request(p, solo, RegisterStudentIds, RegisterDescriptors)

Register_Write(p) ==
    /\ pc[p] = "write"
    /\ pend[p].op = "register"
    /\ \E ok \in BOOLEAN :
          /\ disk' = writeDatabase(disk, pend[p].doc, ok)
          /\ Unpark(p, IF ok THEN pend[p].resp ELSE RegisterSaveFailed, ok)
    /\ UNCHANGED <<attendancePage, mealPage, now, nreq, mIn, mOut>>

MatcherAtRest ==
    /\ mIn = [kind |-> "none"]
    /\ mOut = [done |-> FALSE]

Init ==
    /\ disk \in {initialData, ExistingStore}
    /\ pc = Idle
    /\ pend = [p \in Procs |-> NoPending]
    /\ now = 0
    /\ nreq = 0
    /\ last = NoRequest
    /\ MatcherAtRest
    /\ PagesAtRest

\* requests arrive at any time: reads and writes of different requests interleave
Next ==
    \E p \in Procs :
        \/ MarkAttendance_Read(p, FALSE)
        \/ MarkAttendance_Write(p)
        \/ MarkMeal_Read(p, FALSE)
        \/ MarkMeal_Write(p)
        \/ Register_Read(p, FALSE)
        \/ Register_Write(p)

Spec == Init /\ [][Next]_vars

\* requests handled one at a time
SeqNext ==
    \E p \in Procs :
        \/ MarkAttendance_Read(p, TRUE)
        \/ MarkAttendance_Write(p)
        \/ MarkMeal_Read(p, TRUE)
        \/ MarkMeal_Write(p)
        \/ Register_Read(p, TRUE)
        \/ Register_Write(p)

SeqSpec == Init /\ [][SeqNext]_vars

\* attendance-mark alone, one request at a time, on bodies of every shape
MarkDescriptors == AttendanceProbes \cup {DText, DShort, NotAnArray, Undefined}
MarkTimestamps == Timestamps \cup {Undefined}

MarkNext ==
    \E p \in Procs :
        \/ MarkAttendance_Request(p, TRUE, MarkDescriptors, MarkTimestamps)
        \/ MarkAttendance_Write(p)

MarkSpec == Init /\ [][MarkNext]_vars

\* registration alone, one request at a time, on descriptor lists of every
\* shape
RegisterLists ==
    RegisterDescriptors \cup
    { <<Arr(DA), Arr(DB)>>, <<Arr(DC), Arr(DShort)>>, <<Arr(DShort), Arr(DC)>>,
      <<Undefined>>, <<Arr(DC), Undefined>> }

RegisterNext ==
    \E p \in Procs :
        \/ Register_Request(p, TRUE, RegisterStudentIds, RegisterLists)
        \/ Register_Write(p)

RegisterSpec == Init /\ [][RegisterNext]_vars

(***************************************************************************)
(* The matcher and the comparators applied to drawn inputs                 *)
(***************************************************************************)
CandidatePool ==
    { Student("S001", "active", <<Arr(DB)>>),
      Student("S002", "active", <<Arr(DC), Arr(DA)>>),
      Student("S003", "inactive", <<Arr(DA)>>),
      [studentId |-> "S004", status |-> "active"],
      [studentId |-> "S005", status |-> "active", faceData |-> [confidence |-> 0]],
      Student("S006", "active", <<Undefined, Arr(DShort), Arr(DC)>>),
      Student("S007", "active", <<Arr(DFar)>>) }

RECURSIVE ListsUpTo(_, _)
ListsUpTo(S, n) ==
    IF n = 0 THEN {<<>>}
    ELSE LET shorter == ListsUpTo(S, n - 1)
         IN  shorter \cup {Append(l, x) : l \in {m \in shorter : Len(m) = n - 1}, x \in S}

ProbeInputs == {Arr(DA), Arr(DB), Undefined}
ThresholdInputs == {0, 3, 5, 6, 12}
InstanceThresholds == {3, 6}
ComparatorInputs == {Undefined, Arr(DA), Arr(DB), Arr(DC), Arr(DShort), Arr(DLong)}

MatchInputs ==
    [kind : {"match"}, probe : ProbeInputs, students : ListsUpTo(CandidatePool, MaxList),
     t1 : ThresholdInputs, t2 : ThresholdInputs, inst : InstanceThresholds]

CompareInputs == [kind : {"compare"}, a : ComparatorInputs, b : ComparatorInputs]

\* the descriptors of a candidate list, in iteration order
RECURSIVE AllDescriptors(_, _)
AllDescriptors(students, k) ==
    IF k > Len(students) THEN <<>>
    ELSE (IF Has(students[k], "faceData") /\ Has(students[k].faceData, "descriptors")
          THEN students[k].faceData.descriptors ELSE <<>>)
         \o AllDescriptors(students, k + 1)

\* router.post('/mark'): the matcher as the route invokes it on a stored threshold
RouteMatch(probe, students, stored) ==
    findBestMatch(probe, students, ThresholdOf([recognitionThreshold |-> stored]))

InitMatch ==
    /\ StoreAtRest
    /\ PagesAtRest
    /\ mIn \in {i \in MatchInputs : i.t1 < i.t2} \cup CompareInputs
    /\ mOut = [done |-> FALSE]

ApplyMatch ==
    /\ mIn.kind = "match"
    /\ ~mOut.done
    /\ mOut' = [done |-> TRUE,
                direct |-> findBestMatch(mIn.probe, mIn.students, mIn.t1),
                route1 |-> RouteMatch(mIn.probe, mIn.students, mIn.t1),
                route2 |-> RouteMatch(mIn.probe, mIn.students, mIn.t2),
                utils1 |-> Utils_findBestMatch(mIn.probe, AllDescriptors(mIn.students, 1),
                                               Some(mIn.t1), mIn.inst),
                utils2 |-> Utils_findBestMatch(mIn.probe, AllDescriptors(mIn.students, 1),
                                               Some(mIn.t2), mIn.inst)]
    /\ UNCHANGED <<attendancePage, mealPage, disk, pc, pend, now, nreq, last, mIn>>

ApplyCompare ==
    /\ mIn.kind = "compare"
    /\ ~mOut.done
    /\ mOut' = [done |-> TRUE,
                route |-> euclideanDistance(mIn.a, mIn.b),
                utils |-> Utils_euclideanDistance(mIn.a, mIn.b),
                routeBack |-> euclideanDistance(mIn.b, mIn.a),
                utilsBack |-> Utils_euclideanDistance(mIn.b, mIn.a),
                matches |-> [t \in ThresholdInputs |->
                                findBestMatch(mIn.a, <<Student("S001", "active", <<mIn.b>>)>>, t)],
                selected |-> {t \in ThresholdInputs :
                                findBestMatch(mIn.a, <<Student("S001", "active", <<mIn.b>>)>>, t)
                                    # NoMatch}]
    /\ UNCHANGED <<attendancePage, mealPage, disk, pc, pend, now, nreq, last, mIn>>

NextMatch == ApplyMatch \/ ApplyCompare

MatchSpec == InitMatch /\ [][NextMatch]_vars

(***************************************************************************)
(* The session resolver, the attendance decision and the meal statistics   *)
(* applied to drawn inputs                                                 *)
(***************************************************************************)
MinutesOfDay == 24 * 60

ResolveInputs == [kind : {"resolve"}, clock : 0..(MinutesOfDay - 1)]

\* server times: 11:59, 12:00, 12:01, 13:00, 13:01, 17:00, 17:01
ClockInputs == {0, 1, 2, 61, 62, 301, 302}

\* the store after S001 was marked present for the morning of 2025-01-01
StoreWithAttendance ==
    AppendAttendance(ExistingStore,
        [id |-> 0, studentId |-> "S001",
         timestamp |-> [date |-> "2025-01-01", time |-> "08:00"],
         date |-> "2025-01-01", session |-> "Morning Session",
         sessionType |-> "morning", status |-> "present", confidence |-> 100])

DecideInputs ==
    { i \in [kind : {"decide"}, db : {ExistingStore, StoreWithAttendance},
             faceDescriptor : AttendanceProbes, timestamp : Timestamps,
             s : SessionInputs, c1 : ClockInputs, c2 : ClockInputs] : i.c1 < i.c2 }

\* stores for the statistics: students S001.. in some status, each with a
\* meal on some of the dates
StatsIds == <<"S001", "S002", "S003", "S004", "S005", "S006">>
StatsDates == <<"2025-01-01", "2025-01-02">>

RECURSIVE StatsStudents(_, _)
StatsStudents(statuses, k) ==
    IF k > Len(statuses) THEN <<>>
    ELSE <<Student(StatsIds[k], statuses[k], <<Arr(DA)>>)>> \o StatsStudents(statuses, k + 1)

RECURSIVE StatsMeals(_, _, _)
StatsMeals(served, k, j) ==
    IF k > Len(served) THEN <<>>
    ELSE IF j > Len(StatsDates) THEN StatsMeals(served, k + 1, 1)
    ELSE (IF StatsDates[j] \in served[k]
          THEN << [id |-> 0, studentId |-> StatsIds[k], date |-> StatsDates[j],
                   timestamp |-> [date |-> StatsDates[j], time |-> "12:30"],
                   status |-> "served"] >>
          ELSE <<>>)
         \o StatsMeals(served, k, j + 1)

StatsStore(statuses, served) ==
    [students |-> StatsStudents(statuses, 1), attendance |-> <<>>,
     meals |-> StatsMeals(served, 1, 1),
     settings |-> [recognitionThreshold |-> InitialThreshold],
     statistics |-> [totalRegistrations |-> Len(statuses), totalAttendanceMarked |-> 0,
                     totalMealsServed |-> Len(StatsMeals(served, 1, 1))]]

\* the store register writes after a failed read: no meals collection, no counters
StoreWithoutMeals ==
    AppendStudent(readDatabase_register(initialData, FALSE),
                  Student("S003", "active", <<Arr(DC)>>))

StatsStores ==
    UNION { { StatsStore(statuses, served) :
                served \in { l \in ListsUpTo(SUBSET {"2025-01-01", "2025-01-02"},
                                             MaxList + 1) : Len(l) = Len(statuses) } } :
            statuses \in ListsUpTo({"active", "inactive"}, MaxList + 1) }

StatsInputs ==
    [kind : {"stats"}, db : StatsStores \cup {StoreWithoutMeals},
     date : {Undefined, Some("2025-01-01"), Some("2025-01-02")}, ok : BOOLEAN]

\* the page and the server read the same wall clock
PageClockInputs == [kind : {"session"}, clock : 0..(MinutesOfDay - 1)]

InitCore ==
    /\ StoreAtRest
    /\ PagesAtRest
    /\ mIn \in ResolveInputs \cup DecideInputs \cup StatsInputs \cup PageClockInputs
    /\ mOut = [done |-> FALSE]

ApplyResolve ==
    /\ mIn.kind = "resolve"
    /\ ~mOut.done
    /\ mOut' = [done |-> TRUE, slot |-> getCurrentTimeSlot(mIn.clock)]
    /\ UNCHANGED <<attendancePage, mealPage, disk, pc, pend, now, nreq, last, mIn>>

ApplyDecide ==
    /\ mIn.kind = "decide"
    /\ ~mOut.done
    /\ LET req == [faceDescriptor |-> mIn.faceDescriptor, timestamp |-> mIn.timestamp,
                   session |-> mIn.s.session, sessionType |-> mIn.s.sessionType]
       IN  mOut' = [done |-> TRUE,
                    first |-> AttendanceDecision(mIn.db, req, mIn.c1),
                    second |-> AttendanceDecision(mIn.db, req, mIn.c2)]
    /\ UNCHANGED <<attendancePage, mealPage, disk, pc, pend, now, nreq, last, mIn>>

ApplyStats ==
    /\ mIn.kind = "stats"
    /\ ~mOut.done
    /\ mOut' = [done |-> TRUE,
                stats |-> mealStats(mIn.db, [date |-> mIn.date], 0, mIn.ok)]
    /\ UNCHANGED <<attendancePage, mealPage, disk, pc, pend, now, nreq, last, mIn>>

\* the page's getCurrentSession and the server's getCurrentTimeSlot at one
\* time of day
ApplySession ==
    /\ mIn.kind = "session"
    /\ ~mOut.done
    /\ mOut' = [done |-> TRUE,
                session |-> getCurrentSession(mIn.clock),
                slot |-> getCurrentTimeSlot(mIn.clock)]
    /\ UNCHANGED <<attendancePage, mealPage, disk, pc, pend, now, nreq, last, mIn>>

NextCore == ApplyResolve \/ ApplyDecide \/ ApplyStats \/ ApplySession

CoreSpec == InitCore /\ [][NextCore]_vars

(***************************************************************************)
(* js/attendance.js: startScanner, startFaceRecognition, processAttendance,*)
(* stopScanner.  Every await, timer and animation frame is a step of its   *)
(* own; the steps of different callbacks interleave.                       *)
(***************************************************************************)
ServerAtRest == UNCHANGED <<disk, pc, pend, now, nreq, last, mIn, mOut, mealPage>>

\* a timer handle is truthy once set, also after its timer has run
Truthy(recognitionTimeout) == recognitionTimeout # "null"

\* startScanner up to await getUserMedia
startScanner ==
    /\ attendancePage.started < MaxStarts
    /\ attendancePage' =
          [attendancePage EXCEPT
              !.started = @ + 1,
              !.stopped = FALSE, !.armedAfterStop = FALSE, !.invokedAfterStop = FALSE,
              !.starting = IF attendancePage.isModelLoaded THEN @ + 1 ELSE @]
    /\ ServerAtRest

\* getUserMedia settled: the stream is attached, a loadedmetadata listener is
\* added and isScanning is set; or the promise was rejected
startScanner_Stream ==
    /\ attendancePage.starting > 0
    /\ \E granted \in BOOLEAN :
          attendancePage' =
              IF granted
              THEN [attendancePage EXCEPT !.starting = @ - 1, !.srcObject = TRUE,
                                          !.listeners = @ + 1, !.metadata = TRUE,
                                          !.isScanning = TRUE]
              ELSE [attendancePage EXCEPT !.starting = @ - 1]
    /\ ServerAtRest

\* loadedmetadata: every listener calls startFaceRecognition, which runs
\* recognizeFaces once; ready of them find video.readyState === 4
startFaceRecognition ==
    /\ attendancePage.metadata
    /\ attendancePage.srcObject
    /\ \E ready \in 0..attendancePage.listeners :
          attendancePage' =
              IF attendancePage.isModelLoaded /\ attendancePage.isScanning
              THEN [attendancePage EXCEPT !.metadata = FALSE,
                                          !.detecting = @ + ready,
                                          !.frames = @ + (attendancePage.listeners - ready)]
              ELSE [attendancePage EXCEPT !.metadata = FALSE]
    /\ ServerAtRest

\* recognizeFaces called by requestAnimationFrame, up to await detectAllFaces
recognizeFaces ==
    /\ attendancePage.frames > 0
    /\ \E ready \in {r \in BOOLEAN : r => attendancePage.srcObject} :
          attendancePage' =
              IF ready /\ attendancePage.isScanning
              THEN [attendancePage EXCEPT !.frames = @ - 1, !.detecting = @ + 1]
              ELSE IF attendancePage.isScanning
              THEN attendancePage
              ELSE [attendancePage EXCEPT !.frames = @ - 1]
    /\ ServerAtRest

DetectionOutcomes == {"face", "unclear", "none", "error"}

\* recognizeFaces after await detectAllFaces, to the end of the callback
recognizeFaces_Detected ==
    /\ attendancePage.detecting > 0
    /\ \E outcome \in DetectionOutcomes :
          attendancePage' =
              [attendancePage EXCEPT
                  !.detecting = @ - 1,
                  !.recognitionTimeout =
                      IF outcome = "face" THEN "pending"
                      ELSE IF outcome = "none" /\ Truthy(@) THEN "null"
                      ELSE @,
                  !.armedAfterStop = @ \/ (outcome = "face" /\ attendancePage.stopped),
                  !.frames = IF attendancePage.isScanning THEN @ + 1 ELSE @]
    /\ ServerAtRest

\* the recognition timer runs: processAttendance up to await fetch
processAttendance ==
    /\ attendancePage.recognitionTimeout = "pending"
    /\ attendancePage.submitted < MaxRequests
    /\ attendancePage' =
          [attendancePage EXCEPT
              !.recognitionTimeout = "fired",
              !.fetching = @ + 1,
              !.submitted = @ + 1,
              !.invokedAfterStop = @ \/ attendancePage.stopped]
    /\ ServerAtRest

ResponseOutcomes == {"recognized", "not recognized", "failed"}

\* processAttendance after the response: a recognized face arms
\* setTimeout(stopScanner, 3000)
processAttendance_Response ==
    /\ attendancePage.fetching > 0
    /\ \E outcome \in ResponseOutcomes :
          attendancePage' =
              [attendancePage EXCEPT
                  !.fetching = @ - 1,
                  !.stopTimers = IF outcome = "recognized" THEN @ + 1 ELSE @]
    /\ ServerAtRest

Stopped(page) ==
    [page EXCEPT !.isScanning = FALSE, !.recognitionTimeout = "null",
                 !.srcObject = FALSE, !.metadata = FALSE,
                 !.stopped = TRUE, !.armedAfterStop = FALSE, !.invokedAfterStop = FALSE]

\* the stop button
stopScanner ==
    /\ attendancePage' = Stopped(attendancePage)
    /\ ServerAtRest

\* the timer armed by a recognized attendance
stopScanner_Timer ==
    /\ attendancePage.stopTimers > 0
    /\ attendancePage' = Stopped([attendancePage EXCEPT !.stopTimers = @ - 1])
    /\ ServerAtRest

InitScanner ==
    /\ StoreAtRest
    /\ MatcherAtRest
    /\ attendancePage \in {AttendancePageLoaded(loaded) : loaded \in BOOLEAN}
    /\ mealPage = MealPageLoaded

NextScanner ==
    \/ startScanner
    \/ startScanner_Stream
    \/ startFaceRecognition
    \/ recognizeFaces
    \/ recognizeFaces_Detected
    \/ processAttendance
    \/ processAttendance_Response
    \/ stopScanner
    \/ stopScanner_Timer

ScannerSpec == InitScanner /\ [][NextScanner]_vars

(***************************************************************************)
(* The meal page: processMealDistribution, one run per recognition timer   *)
(* that fires, against the server's two handlers.  A request is handled by *)
(* the server in one step; runs interleave at their awaits.                *)
(***************************************************************************)
\* router.post('/mark') from the request to the response
ServeAttendance(d, req, clock, readOk, writeOk) ==
    LET rejection == ValidateMark(req)
        db == readDatabase_attendance(d, readOk)
        decision == AttendanceDecision(db, req, clock)
    IN  IF rejection # Null THEN [disk |-> d, resp |-> rejection[1]]
        ELSE IF decision.kind = "create"
        THEN [disk |-> writeDatabase(d, decision.doc, writeOk), resp |-> decision.resp]
        ELSE [disk |-> d, resp |-> decision.resp]

MealMissing ==
    [status |-> 400, success |-> FALSE, message |-> "Student ID and timestamp are required"]

\* app.post('/api/meal/mark') from the request to the response
ServeMeal(d, body, clock, readOk, writeOk) ==
    IF body.studentId = Undefined \/ body.timestamp = Undefined
    THEN [disk |-> d, resp |-> MealMissing]
    ELSE LET req == [studentId |-> body.studentId[1], timestamp |-> body.timestamp[1]]
             decision == MealDecision(readDatabase_server(d, readOk), req, clock)
         IN  IF decision.kind = "create"
             THEN [disk |-> writeDatabase(d, decision.doc, writeOk),
                   resp |-> IF writeOk THEN decision.resp ELSE MealSaveFailed]
             ELSE [disk |-> d, resp |-> decision.resp]

\* a page that goes on whenever the verification was answered with a 2xx
VerificationPassed_OkOnly(response) == response.ok

\* verifyResponse.ok && verifyResult.recognized
VerificationPassed(response) ==
    response.ok /\ Has(response.body, "recognized") /\ response.body.recognized

AttendanceMarkUrl == "/api/attendance/mark"
MealMarkUrl == "/api/meal/mark"

\* new Date().toISOString() on the page: the meal hour of one day
PageTimestamps == {[date |-> "2025-01-01", time |-> "12:30"]}

AttendancePageAtRest == UNCHANGED <<pc, pend, nreq, last, mIn, mOut, attendancePage>>

\* the recognition timer runs: processMealDistribution up to the first fetch;
\* wire records what the run sends and receives and is read by no handler
processMealDistribution ==
    /\ Len(mealPage.runs) < MaxRequests
    /\ \E faceDescriptor \in AttendanceProbes, timestamp \in PageTimestamps :
          LET verificationPayload ==
                  [faceDescriptor |-> faceDescriptor, timestamp |-> timestamp,
                   session |-> Some("Mid-Day Meal"), sessionType |-> Some("meal")]
          IN  mealPage' =
                  [runs |-> Append(mealPage.runs,
                                   [step |-> "verify", request |-> verificationPayload,
                                    wire |-> << [dir |-> "request", url |-> AttendanceMarkUrl,
                                                 body |-> verificationPayload] >>])]
    /\ UNCHANGED <<disk, now>>
    /\ AttendancePageAtRest

\* the server answers the request of run k, or the fetch fails
Server_Answer(k) ==
    /\ k \in 1..Len(mealPage.runs)
    /\ mealPage.runs[k].step \in {"verify", "meal"}
    /\ \E readOk \in BOOLEAN, writeOk \in BOOLEAN, delivered \in BOOLEAN :
          LET run == mealPage.runs[k]
              clock == now + 1
              served == IF run.step = "verify"
                        THEN ServeAttendance(disk, run.request, clock, readOk, writeOk)
                        ELSE ServeMeal(disk, run.request, clock, readOk, writeOk)
              response == [ok |-> served.resp.status = 200, body |-> served.resp]
          IN  /\ disk' = served.disk
              /\ now' = clock
              /\ mealPage' =
                    [mealPage EXCEPT !.runs[k] =
                        [step |-> IF run.step = "verify" THEN "verified" ELSE "marked",
                         response |-> IF delivered THEN Some(response) ELSE Null,
                         wire |-> IF delivered
                                  THEN Append(run.wire,
                                              [dir |-> "response",
                                               url |-> IF run.step = "verify"
                                                       THEN AttendanceMarkUrl ELSE MealMarkUrl,
                                               ok |-> response.ok, body |-> response.body])
                                  ELSE run.wire]]
    /\ AttendancePageAtRest

\* processMealDistribution after the verification: the meal-mark is sent, or
\* the error is shown (also when fetch threw)
processMealDistribution_Verified(k) ==
    /\ k \in 1..Len(mealPage.runs)
    /\ mealPage.runs[k].step = "verified"
    /\ \E timestamp \in PageTimestamps :
          LET run == mealPage.runs[k]
              verifyResult == run.response[1].body
              mealPayload ==
                  [studentId |-> IF Has(verifyResult, "studentId")
                                 THEN Some(verifyResult.studentId) ELSE Undefined,
                   timestamp |-> Some(timestamp)]
          IN  mealPage' =
                  IF run.response # Null /\ VerificationPassed(run.response[1])
                  THEN [mealPage EXCEPT !.runs[k] =
                           [step |-> "meal", request |-> mealPayload,
                            wire |-> Append(run.wire,
                                            [dir |-> "request", url |-> MealMarkUrl,
                                             body |-> mealPayload])]]
                  ELSE [mealPage EXCEPT !.runs[k] = [step |-> "done", wire |-> run.wire]]
    /\ UNCHANGED <<disk, now>>
    /\ AttendancePageAtRest

\* processMealDistribution after the meal-mark was answered
processMealDistribution_Marked(k) ==
    /\ k \in 1..Len(mealPage.runs)
    /\ mealPage.runs[k].step = "marked"
    /\ mealPage' = [mealPage EXCEPT !.runs[k] =
                       [step |-> "done", wire |-> mealPage.runs[k].wire]]
    /\ UNCHANGED <<disk, now>>
    /\ AttendancePageAtRest

InitMealPage ==
    /\ Init
    /\ attendancePage = AttendancePageLoaded(FALSE)

NextMealPage ==
    \/ processMealDistribution
    \/ \E k \in 1..MaxRequests :
          \/ Server_Answer(k)
          \/ processMealDistribution_Verified(k)
          \/ processMealDistribution_Marked(k)

MealPageSpec == InitMealPage /\ [][NextMealPage]_vars

(***************************************************************************)
(* Claims about the matcher and the comparator (MatchSpec)                 *)
(***************************************************************************)
Matched == mOut.done /\ mIn.kind = "match"
Compared == mOut.done /\ mIn.kind = "compare"

\* a student the matcher has to skip, written out from the claim
Skipped(student) ==
    \/ student.status # "active"
    \/ ~Has(student, "faceData")
    \/ ~Has(student.faceData, "descriptors")

\* the (student, descriptor) positions of the students that are not skipped
Positions(students) ==
    UNION { {<<k, i>> : i \in 1..Len(students[k].faceData.descriptors)} :
            k \in {j \in 1..Len(students) : ~Skipped(students[j])} }

DistAt(probe, students, pos) ==
    euclideanDistance(probe, students[pos[1]].faceData.descriptors[pos[2]])

Earlier(p, q) == p[1] < q[1] \/ (p[1] = q[1] /\ p[2] <= q[2])

Nearest(probe, students) ==
    {p \in Positions(students) :
        \A q \in Positions(students) :
            LeqDist(DistAt(probe, students, p), DistAt(probe, students, q))}

FirstNearest(probe, students) ==
    CHOOSE p \in Nearest(probe, students) :
        \A q \in Nearest(probe, students) : Earlier(p, q)

\* C7: findBestMatch returns the student owning the first descriptor, in
\* iteration order, at the minimum distance over all descriptors of eligible
\* students when that minimum is strictly below the threshold, and no match
\* otherwise (a distance equal to the threshold is no match, a later tie never
\* replaces the earlier best).
C7_FirstNearestBelowThreshold ==
    Matched =>
        LET P == Positions(mIn.students)
            f == FirstNearest(mIn.probe, mIn.students)
        IN  IF P # {} /\ LessThanThreshold(DistAt(mIn.probe, mIn.students, f), mIn.t1)
            THEN /\ mOut.direct.matchedStudent = Some(mIn.students[f[1]])
                 /\ mOut.direct.bestMatch # Null
                 /\ mOut.direct.bestMatch[1].distance = DistAt(mIn.probe, mIn.students, f)
            ELSE mOut.direct = NoMatch

\* C7 witness: two different students tie at the minimum distance, which is
\* below the threshold, and the matcher has answered.
C7_Witness ==
    /\ Matched
    /\ \E p, q \in Nearest(mIn.probe, mIn.students) :
          /\ p[1] < q[1]
          /\ mIn.students[p[1]] # mIn.students[q[1]]
          /\ LessThanThreshold(DistAt(mIn.probe, mIn.students, p), mIn.t1)
    /\ mOut.direct.matchedStudent # Null

FoundDistance(r) == r.bestMatch[1].distance

\* C8: threshold monotonicity for every pair of thresholds T < T', T = 0
\* included: a match at T gives a match at T' at a distance that is not
\* larger, for the route's matcher on the stored threshold and for
\* FaceRecognitionUtils.findBestMatch.
C8_ThresholdMonotone ==
    Matched =>
        /\ (mOut.route1.matchedStudent # Null =>
                /\ mOut.route2.matchedStudent # Null
                /\ LeqDist(FoundDistance(mOut.route2), FoundDistance(mOut.route1)))
        /\ ((~mOut.utils1.threw /\ mOut.utils1.value.found) =>
                /\ ~mOut.utils2.threw
                /\ mOut.utils2.value.found
                /\ LeqDist(mOut.utils2.value.match[1].distance,
                           mOut.utils1.value.match[1].distance))

\* C9: on an empty list, or a list whose students are all inactive or without
\* a descriptor set, findBestMatch returns no match (no student, no best
\* match), for every probe and threshold.
C9_NoCandidateNoMatch ==
    (Matched /\ \A k \in 1..Len(mIn.students) : Skipped(mIn.students[k])) =>
        /\ mOut.direct = NoMatch
        /\ mOut.route1 = NoMatch
        /\ mOut.route2 = NoMatch

\* C9 witness: a non-empty list of skipped students, one of them inactive
\* with a descriptor identical to the probe.
C9_Witness ==
    /\ Matched
    /\ mIn.students # <<>>
    /\ \A k \in 1..Len(mIn.students) : Skipped(mIn.students[k])
    /\ \E k \in 1..Len(mIn.students) :
          /\ mIn.students[k].status = "inactive"
          /\ Has(mIn.students[k], "faceData")
          /\ \E i \in 1..Len(mIn.students[k].faceData.descriptors) :
                mIn.students[k].faceData.descriptors[i] = mIn.probe
    /\ mOut.direct = NoMatch

\* C10: the descriptor comparator is total: on inputs of different lengths or
\* a missing input it returns the unbounded sentinel instead of failing (the
\* route's euclideanDistance and FaceRecognitionUtils.euclideanDistance), and
\* the matcher selects no student on that sentinel at any threshold.
C10_ComparatorTotal ==
    (/\ Compared
     /\ (\/ mIn.a = Undefined
         \/ mIn.b = Undefined
         \/ mIn.a[1].length # mIn.b[1].length)) =>
        /\ mOut.route = Infinity
        /\ mOut.utils = Returned(Infinity)
        /\ mOut.selected = {}

(***************************************************************************)
(* Claims about the ledgers (SeqSpec: one request at a time; Spec: all     *)
(* interleavings)                                                          *)
(***************************************************************************)
AtRest == pc = Idle

\* C1: with requests handled one at a time, the persisted attendance
\* collection holds at most one record per (studentId, date, session), the
\* date being the first 10 characters of the request timestamp and the
\* session compared exactly.
C1_AttendanceUnique ==
    /\ \A i, j \in 1..Len(disk.attendance) :
          (/\ disk.attendance[i].studentId = disk.attendance[j].studentId
           /\ disk.attendance[i].date = disk.attendance[j].date
           /\ disk.attendance[i].session = disk.attendance[j].session) => i = j
    /\ \A i \in 1..Len(disk.attendance) :
          disk.attendance[i].date = disk.attendance[i].timestamp.date

\* C1 witness: two records of one student on one date were persisted, for
\* sessions that differ in letter case only.
C1_Witness ==
    /\ AtRest
    /\ \E i, j \in 1..Len(disk.attendance) :
          /\ disk.attendance[i].studentId = disk.attendance[j].studentId
          /\ disk.attendance[i].date = disk.attendance[j].date
          /\ disk.attendance[i].session = "Morning Session"
          /\ disk.attendance[j].session = "morning session"

\* C2: attendance-mark submitted twice in succession for the same matched
\* student, date and session: the first is answered created, the second
\* already-exists with the first record's timestamp; over the two calls the
\* collection and the counter grow by exactly one, and the second call leaves
\* the store unchanged.
C2_TwiceInSuccession ==
    [][ (/\ last.op = "attendance"
         /\ last'.op = "attendance"
         /\ last'.seq = last.seq + 1
         /\ last.resp.recognized
         /\ last'.resp.recognized
         /\ last'.resp.studentId = last.resp.studentId
         /\ last'.req.timestamp.date = last.req.timestamp.date
         /\ last'.resp.session = last.resp.session
         /\ ~last.resp.alreadyMarked)
        => (/\ last'.resp.alreadyMarked
            /\ last'.resp.timestamp = last.req.timestamp
            /\ disk' = disk
            /\ Len(disk'.attendance) = last.before.attendance + 1
            /\ OrZero(disk'.statistics, "totalAttendance")
                   = last.before.totalAttendance + 1) ]_vars

MealsOf(d) == IF Has(d, "meals") THEN d.meals ELSE <<>>

IsActive(d, studentId) ==
    \E k \in 1..Len(d.students) :
        d.students[k].studentId = studentId /\ d.students[k].status = "active"

MealsUnique ==
    \A i, j \in 1..Len(MealsOf(disk)) :
        (/\ MealsOf(disk)[i].studentId = MealsOf(disk)[j].studentId
         /\ MealsOf(disk)[i].date = MealsOf(disk)[j].date) => i = j

\* the last request was a meal-mark for an active student who already had a
\* record of another time of that day: a second call
SecondMealCall(r) ==
    /\ last.op = "meal"
    /\ IsActive(disk, last.req.studentId)
    /\ r.studentId = last.req.studentId
    /\ r.date = last.req.timestamp.date
    /\ r.timestamp # last.req.timestamp

C4_InactiveRejectedFirst ==
    [][ (/\ last' # last
         /\ last'.op = "meal"
         /\ last'.write = "none"
         /\ ~IsActive(disk, last'.req.studentId))
        => (last'.resp = MealNotFound /\ disk' = disk) ]_vars

\* C4 witness: the request rejected last named an inactive student who has a
\* meal on record for the requested date.
C4_Witness ==
    /\ last.op = "meal"
    /\ last.resp = MealNotFound
    /\ \E k \in 1..Len(disk.students) :
          /\ disk.students[k].studentId = last.req.studentId
          /\ disk.students[k].status = "inactive"
    /\ \E i \in 1..Len(MealsOf(disk)) :
          /\ MealsOf(disk)[i].studentId = last.req.studentId
          /\ MealsOf(disk)[i].date = last.req.timestamp.date

\* every attendance and meal record of d is a record of e
Preserved(d, e) ==
    /\ \A i \in 1..Len(d.attendance) :
          \E j \in 1..Len(e.attendance) : e.attendance[j] = d.attendance[i]
    /\ \A i \in 1..Len(MealsOf(d)) :
          \E j \in 1..Len(MealsOf(e)) : MealsOf(e)[j] = MealsOf(d)[i]

\* C5: a record once persisted is in every later persisted state,
\* unmodified, for every interleaving of the requests' reads and writes.
C5_RecordedIsTerminal == [][Preserved(disk, disk')]_vars

\* C6: when the write fails in attendance-mark or meal-mark, the caller is
\* told of a server-side failure, never of a success.
C6_WriteFailureIsServerFailure ==
    (last.op \in {"attendance", "meal"} /\ last.write = "failed") =>
        (last.resp.status = 500 /\ ~last.resp.success)

\* a body that the boundary has to reject
Malformed(req) ==
    \/ req.timestamp = Undefined
    \/ req.faceDescriptor = Undefined
    \/ ~Has(req.faceDescriptor, "lead")
    \/ req.faceDescriptor.length # 128
    \/ Has(req.faceDescriptor, "text")

\* C13: attendance-mark rejects every request whose faceDescriptor is missing,
\* is not an array, has not exactly 128 elements or holds an element that is
\* not a number, and every request without timestamp, before the matcher is
\* invoked and without reading or changing the store.
C13_MalformedRejectedAtBoundary ==
    [][ (last' # last /\ last'.op = "attendance" /\ Malformed(last'.req))
        => (/\ last'.resp.status = 400
            /\ last'.read = "none"
            /\ last'.write = "none"
            /\ disk' = disk) ]_vars

\* no active student of db has a descriptor nearer to the probe than the
\* threshold in force
NoStudentUnder(db, probe) ==
    \A k \in 1..Len(db.students) :
        (/\ db.students[k].status = "active"
         /\ Has(db.students[k], "faceData")
         /\ Has(db.students[k].faceData, "descriptors"))
        => \A i \in 1..Len(db.students[k].faceData.descriptors) :
              LET d == euclideanDistance(Arr(probe), db.students[k].faceData.descriptors[i])
                  t == ThresholdOf(db.settings)
              IN  d.inf \/ d.sq >= t * t

\* C14: when no student is under the threshold, attendance-mark answers a
\* normal negative result with recognized=false, not an error, and leaves
\* the attendance collection and the statistics as they were.
C14_NoMatchIsNegativeResult ==
    [][ (/\ last' # last
         /\ last'.op = "attendance"
         /\ last'.write = "none"
         /\ NoStudentUnder(readDatabase_attendance(disk, last'.read = "ok"),
                           last'.req.faceDescriptor))
        => (/\ last'.resp.status = 200
            /\ ~last'.resp.recognized
            /\ disk' = disk) ]_vars

\* C14 witness: a probe at a distance equal to the stored threshold of the
\* only active student was answered recognized=false.
C14_Witness ==
    /\ last.op = "attendance"
    /\ last.read = "ok"
    /\ last.resp.status = 200
    /\ ~last.resp.recognized
    /\ \E k \in 1..Len(disk.students) :
          /\ disk.students[k].status = "active"
          /\ \E i \in 1..Len(disk.students[k].faceData.descriptors) :
                euclideanDistance(Arr(last.req.faceDescriptor),
                                  disk.students[k].faceData.descriptors[i]).sq
                    = ThresholdOf(disk.settings) * ThresholdOf(disk.settings)

\* C15: after any sequence of registrations that pass validation, no two
\* active students of the persisted store have studentIds equal ignoring case.
C15_ActiveIdsUniqueIgnoringCase ==
    \A i, j \in 1..Len(disk.students) :
        (/\ disk.students[i].status = "active"
         /\ disk.students[j].status = "active"
         /\ ToLowerCase(disk.students[i].studentId) = ToLowerCase(disk.students[j].studentId))
        => i = j

(***************************************************************************)
(* Claims about the resolver, the decision and the statistics (CoreSpec)   *)
(***************************************************************************)
Resolved == mOut.done /\ mIn.kind = "resolve"

\* the time of day that was resolved, in minutes after midnight
ResolvedMinute == (11 * 60 + 59 + mIn.clock) % (24 * 60)

\* the slots as the claim declares them, in minutes after midnight
Declared ==
    << [type |-> "morning", name |-> "Morning Session", from |-> 480, to |-> 720],
       [type |-> "meal", name |-> "Mid-Day Meal", from |-> 720, to |-> 780],
       [type |-> "afternoon", name |-> "Afternoon Session", from |-> 780, to |-> 1020] >>

Containing(minute) ==
    {k \in 1..Len(Declared) : Declared[k].from <= minute /\ minute <= Declared[k].to}

\* C11: the resolver returns the first slot, in the order morning, meal,
\* afternoon, whose [start, end] contains the time of day, ends included; of
\* two slots containing it the earlier-declared one; and
\* {type: 'none', name: 'No Active Session', active: false} when none does.
C11_FirstContainingSlot ==
    Resolved =>
        IF Containing(ResolvedMinute) = {}
        THEN mOut.slot = [type |-> "none", name |-> "No Active Session", active |-> FALSE]
        ELSE LET k == CHOOSE c \in Containing(ResolvedMinute) :
                          \A o \in Containing(ResolvedMinute) : c <= o
             IN  mOut.slot = [type |-> Declared[k].type, name |-> Declared[k].name,
                              active |-> TRUE]

\* C11 witness: a time that two slots contain was resolved to the
\* earlier-declared of them.
C11_Witness ==
    /\ Resolved
    /\ Cardinality(Containing(ResolvedMinute)) = 2
    /\ \E k \in Containing(ResolvedMinute) :
          /\ \A o \in Containing(ResolvedMinute) : k <= o
          /\ mOut.slot.type = Declared[k].type

\* C12 as stated: 08:00 -> morning, 11:59 -> morning, 12:00 -> meal,
\* 12:30 -> meal, 13:00 -> meal, 13:01 -> afternoon, 17:00 -> afternoon,
\* 23:00 -> none.
C12_SessionPartition ==
    Resolved =>
        \A e \in { <<480, "morning">>, <<719, "morning">>, <<720, "meal">>,
                   <<750, "meal">>, <<780, "meal">>, <<781, "afternoon">>,
                   <<1020, "afternoon">>, <<1380, "none">> } :
            ResolvedMinute = e[1] => mOut.slot.type = e[2]

\* C12 as amended: the same table with 12:00 -> morning, the boundary being
\* in the slot declared first.
C12_SessionPartitionFirstDeclared ==
    Resolved =>
        \A e \in { <<480, "morning">>, <<719, "morning">>, <<720, "morning">>,
                   <<750, "meal">>, <<780, "meal">>, <<781, "afternoon">>,
                   <<1020, "afternoon">>, <<1380, "none">> } :
            ResolvedMinute = e[1] => mOut.slot.type = e[2]

\* C12 witness: 12:00 was resolved, to the morning slot.
C12_Witness == Resolved /\ ResolvedMinute = 720 /\ mOut.slot.type = "morning"

StatsReported == mOut.done /\ mIn.kind = "stats" /\ mOut.stats.success

\* the document the statistics were computed from: the store, or nothing when
\* it could not be read
StatsSource == IF mIn.ok THEN mIn.db ELSE [students |-> <<>>, meals |-> <<>>]

ActiveCount == Cardinality({k \in 1..Len(StatsSource.students) :
                               StatsSource.students[k].status = "active"})

ServedOn(date) == Cardinality({i \in 1..Len(StatsSource.meals) :
                                  StatsSource.meals[i].date = date})

\* C16: meal-stats reports mealRate = round(mealsServedToday / totalStudents
\* * 100), totalStudents counting the active students and mealsServedToday the
\* meal records of the target date; mealRate = 0 when totalStudents is 0; and
\* mealsRemaining = max(0, totalStudents - mealsServedToday).
C16_MealStats ==
    StatsReported =>
        LET r == mOut.stats
            t == ActiveCount
            m == ServedOn(r.date)
        IN  /\ mIn.date # <<>> => r.date = mIn.date[1]
            /\ r.totalStudents = t
            /\ r.mealsServedToday = m
            /\ t = 0 => r.mealRate = 0
            /\ t > 0 => /\ 2 * t * r.mealRate <= 200 * m + t
                        /\ 200 * m + t < 2 * t * (r.mealRate + 1)
            /\ r.mealsRemaining >= 0
            /\ r.mealsRemaining >= t - m
            /\ r.mealsRemaining = 0 \/ r.mealsRemaining = t - m

\* C16 witness: two meals for three active students were reported as 67 per
\* cent, one remaining.
C16_Witness ==
    /\ StatsReported
    /\ mIn.ok
    /\ ActiveCount = 3
    /\ ServedOn(mOut.stats.date) = 2
    /\ mOut.stats.mealRate = 67
    /\ mOut.stats.mealsRemaining = 1

Decided == mOut.done /\ mIn.kind = "decide"

\* the record a decision to create appends
Created(decision) == decision.doc.attendance[Len(decision.doc.attendance)]

\* C19: the same descriptor, timestamp, session and sessionType against the
\* same store give the same session label, the same sessionType and the same
\* created/already-exists decision whatever the server's time is.
C19_DecisionIgnoresWallClock ==
    Decided =>
        /\ mOut.first.kind = mOut.second.kind
        /\ mOut.first.kind = "existing" =>
              mOut.first.resp.session = mOut.second.resp.session
        /\ mOut.first.kind = "create" =>
              /\ Created(mOut.first).session = Created(mOut.second).session
              /\ Created(mOut.first).sessionType = Created(mOut.second).sessionType

(***************************************************************************)
(* Claims about races, failed writes and identifiers                       *)
(***************************************************************************)
\* the attendance records of a collection for the key of the request
\* completed last
OfLastKey(attendance) ==
    {i \in 1..Len(attendance) :
        /\ attendance[i].studentId = last.resp.studentId
        /\ attendance[i].date = last.req.timestamp.date
        /\ attendance[i].session = last.resp.session}

\* the request completed last created a record for a key that another
\* request, having read the store before that write as well, had persisted a
\* record of in the meantime
Raced ==
    /\ last.op = "attendance"
    /\ last.read = "ok"
    /\ last.write = "ok"
    /\ OfLastKey(last.replaced) # {}

\* C17 as stated: two concurrent attendance-mark requests for one key can
\* both read a store without a record for it and both create, and after both
\* writes the collection holds two records for the key.
C17_RaceLeavesTwoRecords ==
    Raced => Cardinality(OfLastKey(disk.attendance)) = 2

\* C17 as amended: after both writes the collection holds one record for the
\* key, that of the request that wrote last, and in no state two for one key.
C17_RaceLeavesLastRecord ==
    /\ \A i, j \in 1..Len(disk.attendance) :
          (/\ disk.attendance[i].studentId = disk.attendance[j].studentId
           /\ disk.attendance[i].date = disk.attendance[j].date
           /\ disk.attendance[i].session = disk.attendance[j].session) => i = j
    /\ Raced =>
          /\ Cardinality(OfLastKey(disk.attendance)) = 1
          /\ \A i \in OfLastKey(disk.attendance) :
                disk.attendance[i].timestamp = last.req.timestamp

\* C17 witness: the record the other request had persisted, with another
\* timestamp, was replaced.
C17_Witness ==
    /\ Raced
    /\ \E i \in OfLastKey(last.replaced) :
          last.replaced[i].timestamp # last.req.timestamp

MealsFor(meals, req) ==
    {i \in 1..Len(meals) :
        meals[i].studentId = req.studentId /\ meals[i].date = req.timestamp.date}

C20_AttendanceIdsUnique ==
    \A i, j \in 1..Len(disk.attendance) :
        disk.attendance[i].id = disk.attendance[j].id => i = j

(***************************************************************************)
(* Further claims about the matcher and the comparator (MatchSpec)         *)
(***************************************************************************)
\* C21: the student findBestMatch returns has status 'active' and a
\* non-empty descriptor set; a student that is not active or has no
\* faceData/descriptors is never returned, not even when one of its
\* descriptors is the probe itself and nearer than every active student's.
C21_ReturnedStudentIsEligible ==
    (Matched /\ mOut.direct.matchedStudent # <<>>) =>
        LET student == mOut.direct.matchedStudent[1]
        IN  /\ student.status = "active"
            /\ "faceData" \in DOMAIN student
            /\ "descriptors" \in DOMAIN student.faceData
            /\ Len(student.faceData.descriptors) > 0

\* C21 witness: an inactive student holds the probe itself, and the student
\* returned is an active one at a distance above 0.
C21_Witness ==
    /\ Matched
    /\ \E k \in 1..Len(mIn.students) :
          /\ mIn.students[k].status = "inactive"
          /\ \E i \in 1..Len(mIn.students[k].faceData.descriptors) :
                mIn.students[k].faceData.descriptors[i] = mIn.probe
    /\ mOut.direct.matchedStudent # <<>>
    /\ mOut.direct.matchedStudent[1].status = "active"
    /\ mOut.direct.bestMatch[1].distance.sq > 0

\* c is round((1 - distance) * 100) clamped below at 0, the distance being
\* sqrt(sq) / 10: 100 - c is the integer nearest to sqrt(100 * sq)
IsClampedConfidence(c, sq) ==
    \E k \in 0..200 :
        /\ \/ k = 0 /\ sq = 0
           \/ k > 0 /\ (2 * k - 1) * (2 * k - 1) < 400 * sq
                    /\ 400 * sq <= (2 * k + 1) * (2 * k + 1)
        /\ c = IF 100 - k < 0 THEN 0 ELSE 100 - k

\* C22: for every match returned the confidence is round((1 - distance) *
\* 100) clamped below at 0, never negative whatever the stored threshold is
\* (above 1 included), by the route's matcher and by FaceRecognitionUtils.
C22_ConfidenceClamped ==
    Matched =>
        /\ \A r \in {mOut.route1, mOut.route2} :
              r.bestMatch # <<>> =>
                  /\ r.bestMatch[1].confidence >= 0
                  /\ IsClampedConfidence(r.bestMatch[1].confidence,
                                         r.bestMatch[1].distance.sq)
        /\ \A u \in {mOut.utils1, mOut.utils2} :
              (~u.threw /\ u.value.found) =>
                  /\ u.value.match[1].confidence >= 0
                  /\ IsClampedConfidence(u.value.match[1].confidence,
                                         u.value.match[1].distance.sq)

SameLength == Compared /\ mIn.a # <<>> /\ mIn.b # <<>> /\ mIn.a[1].length = mIn.b[1].length

\* C24: the distance is symmetric and 0 on identical inputs, for equal-length
\* vectors (route and FaceRecognitionUtils); a probe identical to an enrolled
\* descriptor matches at every positive threshold, distance 0, confidence 100.
C24_DistanceSymmetric ==
    SameLength =>
        /\ mOut.route = mOut.routeBack
        /\ ~mOut.route.inf
        /\ ~mOut.utils.threw
        /\ mOut.utils = mOut.utilsBack
        /\ mOut.utils.value = mOut.route
        /\ mIn.a = mIn.b =>
              /\ mOut.route.sq = 0
              /\ \A t \in DOMAIN mOut.matches :
                    t > 0 =>
                        /\ mOut.matches[t].matchedStudent # <<>>
                        /\ mOut.matches[t].bestMatch[1].distance.sq = 0
                        /\ mOut.matches[t].bestMatch[1].confidence = 100

\* C24 witness: two different vectors of one length, differing in a
\* component that only one of them has above 0, were compared both ways.
C24_Witness ==
    /\ SameLength
    /\ mIn.a # mIn.b
    /\ Len(mIn.a[1].lead) # Len(mIn.b[1].lead)
    /\ mOut.route.sq > 0

\* an active student of d holds a descriptor nearer than 0.6 to the probe
StudentUnderSixTenths(d, probe) ==
    \E k \in 1..Len(d.students) :
        /\ d.students[k].status = "active"
        /\ \E i \in 1..Len(d.students[k].faceData.descriptors) :
              LET dist == euclideanDistance(Arr(probe), d.students[k].faceData.descriptors[i])
              IN  ~dist.inf /\ dist.sq < 6 * 6

\* C25: the recognition threshold defaults to 0.6: on a store as initialized,
\* its settings never updated, attendance-mark matches with threshold 0.6.
C25_DefaultThresholdSixTenths ==
    (/\ last.op = "attendance"
     /\ last.read = "ok"
     /\ StudentUnderSixTenths(disk, last.req.faceDescriptor)) => last.resp.recognized

\* every student of d is a student of e, unmodified
StudentsKept(d, e) ==
    \A i \in 1..Len(d.students) :
        \E j \in 1..Len(e.students) : e.students[j] = d.students[i]

\* C26: requests handled one at a time, every snapshot written holds all the
\* students, attendance records and meal records persisted before it, also
\* when the request's own read failed and it worked on the default document.
C26_NoRequestRemovesData ==
    [][StudentsKept(disk, disk') /\ Preserved(disk, disk')]_vars

\* C27: in every persisted state, for every interleaving of registrations,
\* attendance-marks and meal-marks, statistics.totalMealsServed is the number
\* of meal records, statistics.totalAttendance the number of attendance
\* records and statistics.totalRegistrations the number of students (a
\* counter or collection the file does not hold reads as 0, part_000:377, 676).
C27_CountersMatchCollections ==
    /\ OrZero(disk.statistics, "totalMealsServed") = Len(MealsOf(disk))
    /\ OrZero(disk.statistics, "totalAttendance") = Len(disk.attendance)
    /\ OrZero(disk.statistics, "totalRegistrations") = Len(disk.students)

\* C27 witness: a request wrote its snapshot over a file to which another
\* request had added an attendance record since that snapshot was read, and
\* the file holds records.
C27_Witness ==
    /\ last.op \in {"meal", "register", "attendance"}
    /\ last.read = "ok"
    /\ last.write = "ok"
    /\ Len(last.replaced) > last.before.attendance
    /\ Len(disk.students) + Len(disk.attendance) + Len(MealsOf(disk)) > 2

\* every student on file has at least one descriptor, and each descriptor
\* on file is an array of exactly 128 components
StoredDescriptorsValid(d) ==
    \A k \in 1..Len(d.students) :
        /\ Has(d.students[k], "faceData")
        /\ Len(d.students[k].faceData.descriptors) >= 1
        /\ \A i \in 1..Len(d.students[k].faceData.descriptors) :
              /\ d.students[k].faceData.descriptors[i] # Undefined
              /\ d.students[k].faceData.descriptors[i][1].length = DescriptorLength

\* a registration body with no descriptor, or with one that is not an array
\* of 128 components
BadDescriptorList(data) ==
    \/ Len(data.faceData.descriptors) = 0
    \/ \E i \in 1..Len(data.faceData.descriptors) :
          \/ data.faceData.descriptors[i] = Undefined
          \/ data.faceData.descriptors[i][1].length # DescriptorLength

\* C23: after any sequence of registrations every student on file has at
\* least one descriptor and every descriptor on file has exactly 128
\* components; a registration with an empty list, or with any descriptor of
\* another length, is rejected (400) and leaves the store as it was.
C23_StoredDescriptorsWellFormed ==
    /\ []StoredDescriptorsValid(disk)
    /\ [][ (last' # last /\ last'.op = "register" /\ BadDescriptorList(last'.req))
              => (last'.resp.status = 400 /\ ~last'.resp.success /\ disk' = disk) ]_vars

\* C23 witness: after a registration was stored, one whose list holds a
\* 128-component descriptor and a shorter one was rejected.
C23_Witness ==
    /\ last.op = "register"
    /\ last.seq = 2
    /\ Len(last.req.faceData.descriptors) = 2
    /\ \E i, j \in 1..2 :
          /\ last.req.faceData.descriptors[i] = Arr(DC)
          /\ last.req.faceData.descriptors[j] = Arr(DShort)
    /\ last.resp.status = 400
    /\ \E k \in 1..Len(disk.students) : disk.students[k].studentId = "S003"

\* C28: at every time of day HH:MM the page's getCurrentSession and the
\* server's getCurrentTimeSlot return the same type, name and active flag.
C28_PageSessionIsServerSlot ==
    (mOut.done /\ mIn.kind = "session") =>
        /\ mOut.session.type = mOut.slot.type
        /\ mOut.session.name = mOut.slot.name
        /\ mOut.session.active = mOut.slot.active

\* C29: once stopScanner has run, and until startScanner is called again, no
\* recognition timer is pending or newly armed and processAttendance is not
\* invoked, however stopScanner interleaves with a face detection in flight.
C29_StoppedScannerSubmitsNothing ==
    attendancePage.stopped =>
        /\ attendancePage.recognitionTimeout # "pending"
        /\ ~attendancePage.armedAfterStop
        /\ ~attendancePage.invokedAfterStop

\* the places on the wire of run k where it sent to url
Sent(k, url) ==
    {i \in 1..Len(mealPage.runs[k].wire) :
        /\ mealPage.runs[k].wire[i].dir = "request"
        /\ mealPage.runs[k].wire[i].url = url}

\* the places where run k was answered from url
Answered(k, url) ==
    {i \in 1..Len(mealPage.runs[k].wire) :
        /\ mealPage.runs[k].wire[i].dir = "response"
        /\ mealPage.runs[k].wire[i].url = url}

\* the answer says recognized, for that student
RecognizedAs(answer, studentId) ==
    /\ answer.ok
    /\ "recognized" \in DOMAIN answer.body
    /\ answer.body.recognized
    /\ "studentId" \in DOMAIN answer.body
    /\ <<answer.body.studentId>> = studentId

\* C30: the meal page sends a meal-mark only after an attendance-mark for the
\* session 'Mid-Day Meal' of the same run was answered recognized=true, for
\* the studentId that answer names; a face not recognized, or a verification
\* that failed, is followed by no meal-mark of that run.
C30_MealMarkOnlyAfterVerification ==
    \A k \in 1..Len(mealPage.runs) :
        LET wire == mealPage.runs[k].wire
        IN  /\ \A i \in Sent(k, "/api/meal/mark") :
                  \E h \in Sent(k, "/api/attendance/mark"),
                     j \in Answered(k, "/api/attendance/mark") :
                      /\ h < j /\ j < i
                      /\ wire[h].body.session = <<"Mid-Day Meal">>
                      /\ RecognizedAs(wire[j], wire[i].body.studentId)
            /\ (\/ \E j \in Answered(k, "/api/attendance/mark") :
                      ~(wire[j].ok /\ "recognized" \in DOMAIN wire[j].body
                        /\ wire[j].body.recognized)
                \/ (mealPage.runs[k].step = "done"
                    /\ Answered(k, "/api/attendance/mark") = {}))
               => Sent(k, "/api/meal/mark") = {}

\* C30 witness: one run sent a meal-mark for S001 after its verification, and
\* another, whose face was not recognized, ended without one.
C30_Witness ==
    \E k, l \in 1..Len(mealPage.runs) :
        /\ \E i \in Sent(k, "/api/meal/mark") :
              mealPage.runs[k].wire[i].body.studentId = <<"S001">>
        /\ mealPage.runs[l].step = "done"
        /\ \E j \in Answered(l, "/api/attendance/mark") :
              mealPage.runs[l].wire[j].ok /\ ~mealPage.runs[l].wire[j].body.recognized
        /\ Sent(l, "/api/meal/mark") = {}

====
